---- MODULE Spec2Model ----
(***************************************************************************)
(* A model of GPT/train.py: the batch sampler DataLoaderLite, the          *)
(* learning-rate schedule get_lr, the construction of GPT (weight tying,   *)
(* initialization, optimizer groups) and the training loop of __main__.    *)
(*                                                                         *)
(* Numbers.  Learning rates are exact rationals <<num, den>> in units of   *)
(* 1e-5 (max_lr = 6e-4 is 60).  math.cos(math.pi * r) is the rational      *)
(* function Cos below, which is exact at r = 0, 1/3, 1/2, 2/3, 1; floating *)
(* point rounding is not modelled.  A token is represented by its position *)
(* in the token sequence, so a batch is a B x T matrix of positions.       *)
(***************************************************************************)
EXTENDS Integers, Sequences, FiniteSets, TLC

VARIABLES
    \* ---- DataLoaderLite
    nTokens,      \* len(self.tokens)
    B, T,         \* self.B, self.T
    current,      \* self.current
    x, y,         \* the batch returned by the last next_batch()
    ldState,      \* "idle" | "returned" | "raised" (outcome of the last call)
    entry,        \* self.current on entry of the last next_batch()
    calls,        \* number of next_batch() calls made
    visited,      \* positions returned so far, as an input or a target
    \* ---- get_lr and the schedule constants it reads
    warmup_steps, max_steps,
    it,           \* argument of the last get_lr call
    lr,           \* its outcome
    \* ---- GPT(config) and its optimizer
    n_layer, n_head, n_embd,   \* config
    mpc,          \* "new" | "AssertionError" | "model" | "optimizer"
    slots,        \* parameter name -> tensor (the attribute bindings)
    heap,         \* tensor -> [dim, init, ninit, upd]
    groups,       \* optimizer.param_groups
    adamSteps,    \* optimizer steps taken
    \* ---- the training loop of __main__
    tpc,          \* the statement the loop is at
    grad_accum_steps,
    step, mikro_step,
    grad,         \* the accumulated gradient: [contribs, noise, clipped]
    loss,         \* loss of the last forward pass (before the division)
    loss_accum,   \* in units of 1/grad_accum_steps
    stepLoss,     \* sum of the current macro-step's micro-step losses
    param_lr,     \* param_group['lr']
    clipIn,       \* the gradients clip_grad_norm_ was given, in order
    applied,      \* the gradients the parameter updates read, in order
    lrs,          \* the learning rates the parameter updates used, in order
    printed,      \* the last line printed: [step, loss, lr]
    saved         \* torch.save has run

loaderVars == <<nTokens, B, T, current, x, y, ldState, entry, calls, visited>>
lrVars == <<warmup_steps, max_steps, it, lr>>
modelVars == <<n_layer, n_head, n_embd, mpc, slots, heap, groups, adamSteps>>
trainVars == <<tpc, grad_accum_steps, step, mikro_step, grad, loss, loss_accum,
               stepLoss, param_lr, clipIn, applied, lrs, printed, saved>>
vars == <<loaderVars, lrVars, modelVars, trainVars>>

\* ------------------------------------------------------------------ bounds
MaxTokens == 8
MaxB == 2
MaxT == 2
MaxWarmup == 2
MaxMaxSteps == 4
MaxIt == 120
MaxLayer == 2
MaxHead == 3
MaxEmbd == 4
MaxAdamSteps == 2
MaxTrainSteps == 3
MaxAccum == 2

\* ------------------------------------------------------ program constants
max_lr == 60
min_lr == max_lr \div 10
MainWarmupSteps == 10
MainMaxSteps == 100

\* ------------------------------------------------------------- arithmetic
CeilDiv(a, b) == (a + b - 1) \div b

Min(a, b) == IF a < b THEN a ELSE b

Max(a, b) == IF a > b THEN a ELSE b

RatEq(p, q) == p[1] * q[2] = q[1] * p[2]

\* ---------------------------------------------------------- DataLoaderLite
\* self.tokens: position i stands for the token at index i.
Tokens(n) == [i \in 1..n |-> i - 1]

\* Python's seq[a:b] for 0 <= a <= b: indices a .. min(b, len) - 1.
Slice(seq, a, b) ==
    LET hi == Min(b, Len(seq))
    IN  IF a >= hi THEN <<>> ELSE [i \in 1..(hi - a) |-> seq[a + i]]

\* tensor.view(rows, cols): a RuntimeError unless the sizes agree.
View(seq, rows, cols) ==
    IF Len(seq) /= rows * cols
    THEN [err |-> "RuntimeError", m |-> <<>>]
    ELSE [err |-> "",
          m |-> [r \in 1..rows |-> [c \in 1..cols |-> seq[(r - 1) * cols + c]]]]

\* seq[:-1] and seq[1:]
DropLast(seq) == IF Len(seq) = 0 THEN <<>> ELSE SubSeq(seq, 1, Len(seq) - 1)

DropFirst(seq) == IF Len(seq) = 0 THEN <<>> ELSE SubSeq(seq, 2, Len(seq))

\* A wrap test that lets the last window end exactly at the end of the tokens.
WrapsPastEnd(cur, bt, n) == cur + bt + 1 > n

\* The wrap test of next_batch, on the advanced cursor.
Wraps(cur, bt, n) == cur + bt + 1 >= n

Elements(m) == {m[r][c] : r \in DOMAIN m, c \in 1..T}

LoaderInit(n, b, t) ==
    /\ nTokens = n /\ B = b /\ T = t
    /\ current = 0
    /\ x = <<>> /\ y = <<>>
    /\ ldState = "idle" /\ entry = 0 /\ calls = 0 /\ visited = {}

\* next_batch(): an exception at line 171 or 172 leaves self.current as it was.
next_batch ==
    LET tokens == Tokens(nTokens)
        buff == Slice(tokens, current, current + B * T + 1)
        bx == View(DropLast(buff), B, T)
        by == View(DropFirst(buff), B, T)
        adv == current + B * T
    IN  /\ entry' = current
        /\ calls' = calls + 1
        /\ IF bx.err /= "" \/ by.err /= ""
           THEN /\ ldState' = "raised"
                /\ UNCHANGED <<current, x, y, visited>>
           ELSE /\ ldState' = "returned"
                /\ x' = bx.m /\ y' = by.m
                /\ visited' = visited \cup Elements(bx.m) \cup Elements(by.m)
                /\ current' = IF Wraps(adv, B * T, nTokens) THEN 0 ELSE adv
        /\ UNCHANGED <<nTokens, B, T>>

\* ------------------------------------------------------------------ get_lr
\* math.cos(math.pi * p / q) for 0 <= p <= q, as <<num, den>>.
Cos(p, q) ==
    IF 2 * p <= q
    THEN <<q * q - 4 * p * p, q * q + p * p>>
    ELSE <<-(q * q - 4 * (q - p) * (q - p)), q * q + (q - p) * (q - p)>>

\* 0 <= p / q <= 1 for q /= 0
InUnit(p, q) == \/ q > 0 /\ 0 <= p /\ p <= q
                \/ q < 0 /\ q <= p /\ p <= 0

\* A warmup ramp that starts at zero.
WarmupLrFromZero(i, w) == <<max_lr * i, w>>

WarmupLr(i, w) == <<max_lr * (i + 1), w>>

\* A clamp that already applies at max_steps.
PastMaxInclusive(i, m) == i >= m

PastMax(i, m) == i > m

\* get_lr(it) with the globals warmup_steps = w and max_steps = m.
get_lr(i, w, m) ==
    IF i < w
    THEN [kind |-> "value", branch |-> "warmup", val |-> WarmupLr(i, w),
          ratio |-> <<0, 1>>, coeff |-> <<0, 1>>]
    ELSE IF PastMax(i, m)
    THEN [kind |-> "value", branch |-> "past", val |-> <<min_lr, 1>>,
          ratio |-> <<0, 1>>, coeff |-> <<0, 1>>]
    ELSE IF m - w = 0
    THEN [kind |-> "ZeroDivisionError", branch |-> "decay", val |-> <<0, 1>>,
          ratio |-> <<0, 1>>, coeff |-> <<0, 1>>]
    ELSE IF ~InUnit(i - w, m - w)
    THEN [kind |-> "AssertionError", branch |-> "decay", val |-> <<0, 1>>,
          ratio |-> <<i - w, m - w>>, coeff |-> <<0, 1>>]
    ELSE LET c == Cos(i - w, m - w)
             \* coeff = 0.5 * (1 + cos)
             k == <<c[2] + c[1], 2 * c[2]>>
         IN  [kind |-> "value", branch |-> "decay",
              val |-> <<min_lr * k[2] + k[1] * (max_lr - min_lr), k[2]>>,
              ratio |-> <<i - w, m - w>>, coeff |-> k]

NoLr == [kind |-> "none", branch |-> "none", val |-> <<0, 1>>,
         ratio |-> <<0, 1>>, coeff |-> <<0, 1>>]

LrInit(w, m) == /\ warmup_steps = w /\ max_steps = m /\ it = 0 /\ lr = NoLr

CallGetLr(i) ==
    /\ it' = i
    /\ lr' = get_lr(i, warmup_steps, max_steps)
    /\ UNCHANGED <<warmup_steps, max_steps>>

\* --------------------------------------------------------------------- GPT
\* The modules of GPT in registration order, each with the parameters it
\* owns: an Embedding has a weight, a LayerNorm a weight and a bias, a Linear
\* a weight and (unless bias=False) a bias; scale marks NANOGPT_SCALE_INIT.
Mod(name, type, bias, scale) ==
    [name |-> name, type |-> type, bias |-> bias, scale |-> scale]

BlockModules(i) ==
    LET pre == "transformer.h." \o ToString(i) \o "."
    IN  << Mod(pre \o "ln_1", "LayerNorm", TRUE, FALSE),
           Mod(pre \o "ln_2", "LayerNorm", TRUE, FALSE),
           Mod(pre \o "attn.c_attn", "Linear", TRUE, FALSE),
           Mod(pre \o "attn.c_proj", "Linear", TRUE, TRUE),
           Mod(pre \o "mlp.c_fc", "Linear", TRUE, FALSE),
           Mod(pre \o "mlp.c_proj", "Linear", TRUE, TRUE) >>

RECURSIVE Blocks(_, _)
Blocks(i, nl) == IF i >= nl THEN <<>> ELSE BlockModules(i) \o Blocks(i + 1, nl)

Modules(nl) ==
    << Mod("transformer.wte", "Embedding", FALSE, FALSE),
       Mod("transformer.wpe", "Embedding", FALSE, FALSE) >>
    \o Blocks(0, nl)
    \o << Mod("transformer.ln_f", "LayerNorm", TRUE, FALSE),
          Mod("lm_head", "Linear", FALSE, FALSE) >>

\* The parameters of a module list, in order: [name, dim].
RECURSIVE Params(_)
Params(mods) ==
    IF mods = <<>> THEN <<>>
    ELSE LET m == Head(mods)
             w == [name |-> m.name \o ".weight",
                   dim |-> IF m.type = "LayerNorm" THEN 1 ELSE 2]
             b == [name |-> m.name \o ".bias", dim |-> 1]
         IN  (IF m.bias THEN <<w, b>> ELSE <<w>>) \o Params(Tail(mods))

\* SelfAttention.__init__: assert config.n_embd % config.n_head == 0
SelfAttentionAssert(ne, nh) == ne % nh = 0

\* The list comprehension of line 82 builds n_layer blocks, each with its own
\* SelfAttention; the first failing assert aborts the construction.
BlocksBuilt(nl, ne, nh) == \A i \in 0..(nl - 1) : SelfAttentionAssert(ne, nh)

\* Lines 79-85: every parameter is a fresh tensor, numbered in order.
FreshSlots(ps) == [nm \in {ps[k].name : k \in DOMAIN ps} |->
                     CHOOSE k \in DOMAIN ps : ps[k].name = nm]

FreshHeap(ps) == [k \in DOMAIN ps |->
                    [dim |-> ps[k].dim, init |-> "default", ninit |-> 0, upd |-> 0]]

\* A tying that leaves the embedding with a tensor of its own.
TieNothing(sl) == sl

\* Line 87: self.transformer.wte.weight = self.lm_head.weight
TieWeights(sl) ==
    [sl EXCEPT !["transformer.wte.weight"] = sl["lm_head.weight"]]

\* torch.nn.init.normal_ / zeros_: in place, on the tensor the slot names.
InitTensor(hp, id, how) ==
    [hp EXCEPT ![id] = [@ EXCEPT !.init = how, !.ninit = @ + 1]]

\* _init_weights(module)
InitModule(hp, sl, m) ==
    IF m.type = "Linear"
    THEN LET std == IF m.scale THEN "normal(0.02*(2*n_layer)^-0.5)"
                    ELSE "normal(0.02)"
             h1 == InitTensor(hp, sl[m.name \o ".weight"], std)
         IN  IF m.bias THEN InitTensor(h1, sl[m.name \o ".bias"], "zeros") ELSE h1
    ELSE IF m.type = "Embedding"
    THEN InitTensor(hp, sl[m.name \o ".weight"], "normal(0.02)")
    ELSE hp

\* self.apply(self._init_weights)
RECURSIVE ApplyInit(_, _, _)
ApplyInit(hp, sl, mods) ==
    IF mods = <<>> THEN hp
    ELSE ApplyInit(InitModule(hp, sl, Head(mods)), sl, Tail(mods))

\* GPT.__init__
GPTInit ==
    /\ mpc = "new"
    /\ IF ~BlocksBuilt(n_layer, n_embd, n_head)
       THEN /\ mpc' = "AssertionError"
            /\ UNCHANGED <<slots, heap>>
       ELSE LET ps == Params(Modules(n_layer))
                sl == TieWeights(FreshSlots(ps))
            IN  /\ mpc' = "model"
                /\ slots' = sl
                /\ heap' = ApplyInit(FreshHeap(ps), sl, Modules(n_layer))
    /\ UNCHANGED <<n_layer, n_head, n_embd, groups, adamSteps>>

\* self.named_parameters(): each tensor once, under the first name that
\* reaches it.
RECURSIVE NamedParameters(_, _, _)
NamedParameters(ps, sl, seen) ==
    IF ps = <<>> THEN <<>>
    ELSE LET id == sl[Head(ps).name]
         IN  IF id \in seen THEN NamedParameters(Tail(ps), sl, seen)
             ELSE <<[name |-> Head(ps).name, p |-> id]>>
                  \o NamedParameters(Tail(ps), sl, seen \cup {id})

IsDecay(t) == t.dim >= 2

\* configure_optimizers: optim_groups
OptimGroups(sl, hp, ps) ==
    LET param_dict == NamedParameters(ps, sl, {})
        ids == [k \in DOMAIN param_dict |-> param_dict[k].p]
    IN  << [params |-> SelectSeq(ids, LAMBDA id : IsDecay(hp[id])),
            weight_decay |-> "weight_decay"],
           [params |-> SelectSeq(ids, LAMBDA id : ~IsDecay(hp[id])),
            weight_decay |-> "0.0"] >>

configure_optimizers ==
    /\ mpc = "model"
    /\ mpc' = "optimizer"
    /\ groups' = OptimGroups(slots, heap, Params(Modules(n_layer)))
    /\ UNCHANGED <<n_layer, n_head, n_embd, slots, heap, adamSteps>>

\* One update of every tensor of a group, in place.
RECURSIVE UpdateAll(_, _)
UpdateAll(hp, ids) ==
    IF ids = <<>> THEN hp
    ELSE UpdateAll([hp EXCEPT ![Head(ids)].upd = @ + 1], Tail(ids))

\* optimizer.step(): every group, every parameter of the group.
AdamStep(hp, gs) == UpdateAll(UpdateAll(hp, gs[1].params), gs[2].params)

ModelInit(nl, nh, ne) ==
    /\ n_layer = nl /\ n_head = nh /\ n_embd = ne
    /\ mpc = "new"
    /\ slots = <<>> /\ heap = <<>> /\ groups = <<>>
    /\ adamSteps = 0

\* ------------------------------------------------------- the training loop
\* loss.detach().item() of a forward pass: any of these values.
LossValues == {1, 2}

NoGrad == [contribs |-> <<>>, noise |-> 0, clipped |-> FALSE]

NoPrint == [step |-> -1, loss |-> 0, lr |-> <<0, 1>>]

\* Lines 201-238: the state the loop starts in.
TrainInit(g) ==
    /\ tpc = "for_step"
    /\ grad_accum_steps = g
    /\ step = 0 /\ mikro_step = 0
    /\ grad = NoGrad
    /\ loss = 0 /\ loss_accum = 0 /\ stepLoss = 0
    /\ param_lr = <<max_lr, 1>>
    /\ clipIn = <<>> /\ applied = <<>> /\ lrs = <<>>
    /\ printed = NoPrint
    /\ saved = FALSE

\* A loop that runs one macro-step more.
InRangeInclusive(i, n) == i <= n

\* i in range(n), for the index i the loop has reached
InRange(i, n) == i < n

\* for step in range(max_steps): step counts the macro-steps completed.
ForStep ==
    /\ tpc = "for_step"
    /\ tpc' = IF InRange(step, max_steps) THEN "zero_grad" ELSE "save"
    /\ UNCHANGED <<grad_accum_steps, step, mikro_step, grad, loss, loss_accum,
                   stepLoss, param_lr, clipIn, applied, lrs, printed, saved>>
    /\ UNCHANGED <<loaderVars, lrVars, modelVars>>

\* A zero_grad that keeps what was accumulated.
KeepGrad(g) == g

\* optimizer.zero_grad()
ZeroedGrad(g) == NoGrad

ZeroGrad ==
    /\ tpc = "zero_grad"
    /\ grad' = ZeroedGrad(grad)
    /\ stepLoss' = 0
    /\ mikro_step' = 0
    /\ tpc' = "for_mikro"
    /\ UNCHANGED <<grad_accum_steps, step, loss, loss_accum, param_lr, clipIn,
                   applied, lrs, printed, saved>>
    /\ UNCHANGED <<loaderVars, lrVars, modelVars>>

\* for mikro_step in range(grad_accum_steps)
ForMikro ==
    /\ tpc = "for_mikro"
    /\ tpc' = IF InRange(mikro_step, grad_accum_steps) THEN "next_batch" ELSE "clip"
    /\ UNCHANGED <<grad_accum_steps, step, mikro_step, grad, loss, loss_accum,
                   stepLoss, param_lr, clipIn, applied, lrs, printed, saved>>
    /\ UNCHANGED <<loaderVars, lrVars, modelVars>>

\* x, y = train_loader.next_batch()
FetchBatch ==
    /\ tpc = "next_batch"
    /\ next_batch
    /\ tpc' = IF ldState' = "raised" THEN "raised" ELSE "forward"
    /\ UNCHANGED <<grad_accum_steps, step, mikro_step, grad, loss, loss_accum,
                   stepLoss, param_lr, clipIn, applied, lrs, printed, saved>>
    /\ UNCHANGED <<lrVars, modelVars>>

\* logits, loss = model(x, y)
Forward ==
    /\ tpc = "forward"
    /\ \E l \in LossValues : loss' = l
    /\ tpc' = "backward"
    /\ UNCHANGED <<grad_accum_steps, step, mikro_step, grad, loss_accum,
                   stepLoss, param_lr, clipIn, applied, lrs, printed, saved>>
    /\ UNCHANGED <<loaderVars, lrVars, modelVars>>

\* loss = loss / grad_accum_steps; loss_accum += loss.detach().item();
\* loss.backward() adds this micro-step's contribution to the gradient.
Backward ==
    /\ tpc = "backward"
    /\ loss_accum' = loss_accum + loss
    /\ stepLoss' = stepLoss + loss
    /\ grad' = [grad EXCEPT !.contribs = Append(@, <<step, mikro_step>>),
                            !.clipped = FALSE]
    /\ mikro_step' = mikro_step + 1
    /\ tpc' = "for_mikro"
    /\ UNCHANGED <<grad_accum_steps, step, loss, param_lr, clipIn, applied,
                   lrs, printed, saved>>
    /\ UNCHANGED <<loaderVars, lrVars, modelVars>>

\* norm = torch.nn.utils.clip_grad_norm_(model.parameters(), 1.0)
ClipGradNorm ==
    /\ tpc = "clip"
    /\ clipIn' = Append(clipIn, grad)
    /\ grad' = [grad EXCEPT !.clipped = TRUE]
    /\ tpc' = "get_lr"
    /\ UNCHANGED <<grad_accum_steps, step, mikro_step, loss, loss_accum,
                   stepLoss, param_lr, applied, lrs, printed, saved>>
    /\ UNCHANGED <<loaderVars, lrVars, modelVars>>

\* The index the schedule is asked for: lr = get_lr(step)
StepIndex(k) == k

\* lr = get_lr(step); for param_group in optimizer.param_groups: ... = lr
SetLr ==
    /\ tpc = "get_lr"
    /\ CallGetLr(StepIndex(step))
    /\ IF lr'.kind = "value"
       THEN /\ param_lr' = lr'.val
            /\ tpc' = "optimizer_step"
       ELSE /\ tpc' = "raised"
            /\ UNCHANGED param_lr
    /\ UNCHANGED <<grad_accum_steps, step, mikro_step, grad, loss, loss_accum,
                   stepLoss, clipIn, applied, lrs, printed, saved>>
    /\ UNCHANGED <<loaderVars, modelVars>>

\* The optimizer make_private returns (noise_multiplier=1.0): its step() adds
\* the noise to the accumulated gradient, which is then no longer the
\* gradient clip_grad_norm_ left, and updates the parameters from it.
NoisedGrad(g) == [g EXCEPT !.noise = @ + 1, !.clipped = FALSE]

\* optimizer.step()
DPOptimizerStep ==
    /\ tpc = "optimizer_step"
    /\ grad' = NoisedGrad(grad)
    /\ applied' = Append(applied, grad')
    /\ lrs' = Append(lrs, param_lr)
    /\ tpc' = "print"
    /\ UNCHANGED <<grad_accum_steps, step, mikro_step, loss, loss_accum,
                   stepLoss, param_lr, clipIn, printed, saved>>
    /\ UNCHANGED <<loaderVars, lrVars, modelVars>>

\* print(f"Step {step} | Loss: {loss_accum:.4f} | lr {lr:.6f} | ..."), and
\* the loop moves to the next step.
PrintStep ==
    /\ tpc = "print"
    /\ printed' = [step |-> step, loss |-> loss_accum, lr |-> lr.val]
    /\ step' = step + 1
    /\ tpc' = "for_step"
    /\ UNCHANGED <<grad_accum_steps, mikro_step, grad, loss, loss_accum,
                   stepLoss, param_lr, clipIn, applied, lrs, saved>>
    /\ UNCHANGED <<loaderVars, lrVars, modelVars>>

\* torch.save(model.state_dict(), model_dict_path)
Save ==
    /\ tpc = "save"
    /\ saved' = TRUE
    /\ tpc' = "done"
    /\ UNCHANGED <<grad_accum_steps, step, mikro_step, grad, loss, loss_accum,
                   stepLoss, param_lr, clipIn, applied, lrs, printed>>
    /\ UNCHANGED <<loaderVars, lrVars, modelVars>>

\* ======================================================= specifications
\* The batch sampler on its own: any token sequence, any window.
InitLoader ==
    /\ \E n \in 1..MaxTokens, b \in 1..MaxB, t \in 1..MaxT : LoaderInit(n, b, t)
    /\ LrInit(MainWarmupSteps, MainMaxSteps)
    /\ ModelInit(0, 1, 1)
    /\ TrainInit(1)

MaxCalls == 2 * MaxTokens

NextBatchCall ==
    /\ ldState /= "raised"
    /\ calls < MaxCalls
    /\ next_batch
    /\ UNCHANGED <<lrVars, modelVars, trainVars>>

NextLoader == NextBatchCall

SpecLoader == InitLoader /\ [][NextLoader]_vars

\* get_lr with the schedule constants __main__ sets.
InitLr ==
    /\ LoaderInit(1, 1, 1)
    /\ LrInit(MainWarmupSteps, MainMaxSteps)
    /\ ModelInit(0, 1, 1)
    /\ TrainInit(1)

GetLrCall ==
    /\ \E i \in 0..MaxIt : CallGetLr(i)
    /\ UNCHANGED <<loaderVars, modelVars, trainVars>>

NextLr == GetLrCall

SpecLr == InitLr /\ [][NextLr]_vars

\* get_lr with any schedule constants.
InitLrAny ==
    /\ LoaderInit(1, 1, 1)
    /\ \E w \in 0..MaxWarmup, m \in 0..MaxMaxSteps : LrInit(w, m)
    /\ ModelInit(0, 1, 1)
    /\ TrainInit(1)

SpecLrAny == InitLrAny /\ [][NextLr]_vars

\* GPT(config) for any configuration, its optimizer, and optimizer steps.
InitModel ==
    /\ LoaderInit(1, 1, 1)
    /\ LrInit(MainWarmupSteps, MainMaxSteps)
    /\ \E nl \in 0..MaxLayer, nh \in 1..MaxHead, ne \in 1..MaxEmbd :
          ModelInit(nl, nh, ne)
    /\ TrainInit(1)

Construct == GPTInit /\ UNCHANGED <<loaderVars, lrVars, trainVars>>

ConfigureOptimizers == configure_optimizers /\ UNCHANGED <<loaderVars, lrVars, trainVars>>

OptimizerStep ==
    /\ mpc = "optimizer"
    /\ adamSteps < MaxAdamSteps
    /\ heap' = AdamStep(heap, groups)
    /\ adamSteps' = adamSteps + 1
    /\ UNCHANGED <<n_layer, n_head, n_embd, mpc, slots, groups>>
    /\ UNCHANGED <<loaderVars, lrVars, trainVars>>

NextModel == Construct \/ ConfigureOptimizers \/ OptimizerStep

SpecModel == InitModel /\ [][NextModel]_vars

\* The training loop: any step counts, a token sequence that holds more than
\* two windows.
TrainTokens == 2 * MaxB * MaxT + 2

InitTrain ==
    /\ \E b \in 1..MaxB, t \in 1..MaxT : LoaderInit(TrainTokens, b, t)
    /\ \E w \in 0..MaxWarmup, m \in 0..MaxTrainSteps : LrInit(w, m)
    /\ ModelInit(0, 1, 1)
    /\ \E g \in 1..MaxAccum : TrainInit(g)

NextTrain ==
    \/ ForStep \/ ZeroGrad \/ ForMikro \/ FetchBatch \/ Forward \/ Backward
    \/ ClipGradNorm \/ SetLr \/ DPOptimizerStep \/ PrintStep \/ Save

SpecTrain == InitTrain /\ [][NextTrain]_vars

\* The loop is one thread of control: it takes its next step whenever it has one.
FairSpecTrain == SpecTrain /\ WF_vars(NextTrain)

\* ================================================================ claims
\* ---------------------------------------------------------------- C1
\* Number of distinct windows next_batch() cycles through.
NumWindows == Max(1, CeilDiv(nTokens - 1, B * T) - 1)

\* C1 (as claimed): for L >= B*T+1, from cursor 0, the first ceil(L/(B*T))
\* calls of next_batch() return every position 0..L-1, none raises, and the
\* cursor is then back at 0.
C1_AllTokensVisited ==
    (nTokens >= B * T + 1 /\ calls = CeilDiv(nTokens, B * T))
        => /\ ldState /= "raised"
           /\ visited = 0..(nTokens - 1)
           /\ current = 0

\* C1 (amended): for L >= B*T+1, from cursor 0, no call raises; with
\* n = max(1, ceil((L-1)/(B*T)) - 1) the calls cycle through the n windows at
\* cursors 0, B*T, .., (n-1)*B*T, so after k calls the cursor is
\* (k mod n)*B*T and the positions returned are 0..min(k,n)*B*T; positions
\* after n*B*T are never returned.
C1_WindowCycle ==
    nTokens >= B * T + 1
        => /\ ldState /= "raised"
           /\ current = (calls % NumWindows) * B * T
           /\ visited = IF calls = 0 THEN {}
                        ELSE 0..(Min(calls, NumWindows) * B * T)

C1_Witness ==
    /\ nTokens >= B * T + 1
    /\ NumWindows >= 2
    /\ calls = CeilDiv(nTokens, B * T)
    /\ ldState = "returned"
    /\ visited /= 0..(nTokens - 1)

\* ---------------------------------------------------------------- C9
\* C9 (as claimed): a next_batch() call at cursor c returns input
\* tokens[c .. c+B*T-1] and target tokens[c+1 .. c+B*T] as B rows of T, and
\* sets the cursor to c+B*T, or to 0 exactly when the window of B*T+1 tokens
\* at c+B*T would extend past the end of the tokens.
C9_WrapOnlyPastEnd ==
    ldState = "returned"
        => /\ x = [r \in 1..B |-> [c \in 1..T |-> entry + (r - 1) * T + c - 1]]
           /\ y = [r \in 1..B |-> [c \in 1..T |-> entry + (r - 1) * T + c]]
           /\ current = IF entry + B * T + B * T + 1 > nTokens
                        THEN 0 ELSE entry + B * T

\* ---------------------------------------------------------------- C2
\* C2: with the schedule constants of __main__, get_lr(step) is
\* max_lr*(step+1)/warmup_steps for step < warmup_steps (max_lr/warmup_steps,
\* not zero, at step 0), max_lr with coefficient 1 at step = warmup_steps,
\* min_lr with coefficient 0 at step = max_steps, and min_lr for every
\* step > max_steps.
C2_ThreeRegions ==
    lr.kind /= "none"
        => /\ lr.kind = "value"
           /\ it < warmup_steps
                => RatEq(lr.val, <<max_lr * (it + 1), warmup_steps>>)
           /\ it = 0 => /\ RatEq(lr.val, <<max_lr, warmup_steps>>)
                        /\ lr.val[1] /= 0
           /\ it = warmup_steps => /\ RatEq(lr.val, <<max_lr, 1>>)
                                   /\ RatEq(lr.coeff, <<1, 1>>)
           /\ it = max_steps => /\ RatEq(lr.val, <<min_lr, 1>>)
                                /\ lr.coeff[1] = 0
           /\ it > max_steps => lr.val = <<min_lr, 1>>

C2_Witness ==
    /\ lr.kind = "value"
    /\ it = max_steps
    /\ lr.branch = "decay"
    /\ RatEq(lr.val, <<min_lr, 1>>)

\* ---------------------------------------------------------------- C3
\* C3 (as claimed): for any warmup_steps >= 0, max_steps >= 0 and step >= 0,
\* get_lr(step) raises nothing: in the decay branch the divisor
\* max_steps - warmup_steps is non-zero and 0 <= decay_ratio <= 1.
C3_AlwaysSafe ==
    /\ lr.kind \in {"none", "value"}
    /\ lr.branch = "decay"
         => /\ max_steps - warmup_steps /= 0
            /\ 0 <= lr.ratio[1] /\ lr.ratio[1] <= lr.ratio[2]

\* C3 (amended): for any warmup_steps >= 0, max_steps >= 0 and step >= 0,
\* the assertion 0 <= decay_ratio <= 1 never fails, and get_lr(step) divides
\* by zero exactly when warmup_steps = max_steps = step; for every other
\* step and whenever warmup_steps /= max_steps it returns a rate, with
\* decay_ratio in [0,1] in the decay branch.
C3_SafeUnlessEqual ==
    lr.kind /= "none"
        => /\ lr.kind /= "AssertionError"
           /\ lr.kind = "ZeroDivisionError"
                <=> (warmup_steps = max_steps /\ it = warmup_steps)
           /\ (lr.kind = "value" /\ lr.branch = "decay")
                => /\ lr.ratio[2] = max_steps - warmup_steps
                   /\ lr.ratio[2] > 0
                   /\ 0 <= lr.ratio[1] /\ lr.ratio[1] <= lr.ratio[2]

C3_Witness ==
    /\ lr.kind = "value"
    /\ lr.branch = "decay"
    /\ warmup_steps > 0
    /\ it > warmup_steps /\ it < max_steps

\* ---------------------------------------------------------------- C4
\* C4 (as claimed): for any n_layer >= 0, n_head >= 1, n_embd >= 1, GPT(config)
\* with n_embd not divisible by n_head fails with an error and yields no
\* model; construction succeeds only when n_embd % n_head = 0.
C4_IndivisibleFails ==
    mpc /= "new"
        => /\ n_embd % n_head /= 0 => (mpc = "AssertionError" /\ slots = <<>>)
           /\ mpc \in {"model", "optimizer"} => n_embd % n_head = 0

\* ---------------------------------------------------------------- C7
Occurrences(seq, e) == Cardinality({k \in DOMAIN seq : seq[k] = e})

\* C7: once GPT is constructed, transformer.wte.weight and lm_head.weight
\* name one tensor (initialized in place, still aliased); the optimizer's
\* groups hold that tensor exactly once, in the weight-decay group; after
\* every optimizer step both names read the same, once-per-step updated
\* tensor.
C7_WeightTying ==
    mpc \in {"model", "optimizer"}
        => LET wte == slots["transformer.wte.weight"]
               head == slots["lm_head.weight"]
           IN  /\ wte = head
               /\ heap[wte].init = "normal(0.02)"
               /\ mpc = "optimizer"
                    => /\ Occurrences(groups[1].params, head) = 1
                       /\ Occurrences(groups[2].params, head) = 0
                       /\ heap[wte].upd = adamSteps
                       /\ heap[head].upd = adamSteps

C7_Witness ==
    /\ mpc = "optimizer"
    /\ n_layer >= 1
    /\ adamSteps >= 1
    /\ slots["transformer.wte.weight"] = slots["lm_head.weight"]
    /\ heap[slots["lm_head.weight"]].upd = adamSteps

\* ---------------------------------------------------------------- C5
\* C5 (as claimed): in every macro-step the global-norm clip is given the
\* gradient of all grad_accum_steps micro-steps with the macro-step's noise
\* already added once, and the gradient the parameter update reads is the
\* globally clipped one.
C5_ClipAfterNoise ==
    /\ \A k \in DOMAIN clipIn :
          /\ Len(clipIn[k].contribs) = grad_accum_steps
          /\ clipIn[k].noise = 1
    /\ \A k \in DOMAIN applied :
          /\ applied[k].noise = 1
          /\ applied[k].clipped

\* ---------------------------------------------------------------- C6
\* C6: in every macro-step the gradient is zeroed before the first
\* micro-step, so that during the micro-steps it holds this macro-step's
\* contributions only; the one optimizer.step() of macro-step k reads exactly
\* the grad_accum_steps contributions of macro-step k, after the last of
\* them and before any fetch or forward pass of macro-step k+1.
C6_AccumulateThenStepOnce ==
    /\ \A k \in DOMAIN applied :
          applied[k].contribs = [j \in 1..grad_accum_steps |-> <<k - 1, j - 1>>]
    /\ Len(applied) = IF tpc = "print" THEN step + 1 ELSE step
    /\ tpc \in {"for_mikro", "next_batch", "forward", "backward"}
          => grad.contribs = [j \in 1..mikro_step |-> <<step, j - 1>>]
    /\ tpc = "optimizer_step" => Len(grad.contribs) = grad_accum_steps

C6_Witness ==
    /\ tpc = "print"
    /\ step >= 1
    /\ grad_accum_steps >= 2
    /\ Len(applied) = step + 1
    /\ Len(applied[step + 1].contribs) = grad_accum_steps

\* ---------------------------------------------------------------- C8
TrainingDone ==
    /\ saved
    /\ Len(applied) = max_steps
    /\ calls = max_steps * grad_accum_steps
    /\ lrs = [k \in 1..max_steps |-> get_lr(k - 1, warmup_steps, max_steps).val]

\* C8: the training loop terminates, and when it has, it has taken exactly
\* max_steps optimizer steps and max_steps * grad_accum_steps batch fetches,
\* with the rates get_lr(0), .., get_lr(max_steps-1) in that order; the model
\* is saved only after the last optimizer step.
C8_TerminatesAfterMaxSteps ==
    /\ <>(tpc = "done")
    /\ [](tpc = "done" => TrainingDone)
    /\ [](saved => Len(applied) = max_steps)

C8_Witness ==
    /\ tpc = "done"
    /\ saved
    /\ max_steps >= 2
    /\ grad_accum_steps >= 2
    /\ Len(lrs) = max_steps

\* ---------------------------------------------------------------- C10
\* C10 (as claimed): the loss printed for macro-step k is the sum of that
\* macro-step's micro-step losses, each divided by grad_accum_steps, and
\* depends on no earlier macro-step.
C10_PrintedLossIsOwn ==
    (tpc = "for_step" /\ printed.step >= 0) => printed.loss = stepLoss

====
